---- MODULE Spec2Model ----
(***************************************************************************)
(* hanapy: the registration pass of PYBIND11_MODULE(hanapy) (hanapy.cpp)   *)
(* and the surface it leaves in the host runtime.                          *)
(*                                                                         *)
(* The compile-time inputs (the BOOST_HANA_DEFINE_STRUCT field lists, the  *)
(* ds and ts axes) are state that never changes during a run; Init fixes   *)
(* them to the declarations of the source (Spec) or to the source with one *)
(* edit applied (EvolveSpec).                                              *)
(***************************************************************************)
EXTENDS Integers, Sequences, FiniteSets, TLC

\* The numbers in field values range over 0..MaxVal.
MaxVal == 1
\* Number of instances the host holds at a time.
MaxObjs == 1

VARIABLES
    structs,           \* Hana struct -> its declared fields, in declaration order
    ds,                \* the dimension axis: sequence of <<name, integral constant>>
    ts,                \* the scalar axis: sequence of <<name, type>>
    pc,                \* position of PYBIND11_MODULE(hanapy)
    m,                 \* the module: binding name -> binding
    registered_types,  \* native types the binding layer knows
    kaAlive,           \* the fold lambda's `ka` parameters that are alive
    objs,              \* instances the host holds
    last               \* the host's last operation and its outcome

vars == <<structs, ds, ts, pc, m, registered_types, kaAlive, objs, last>>

(***************************************************************************)
(* Declarations of the source.                                             *)
(***************************************************************************)
Field(t, n) == [type |-> t, name |-> n]

SomePacketOld ==
    <<Field("int32_t", "id"), Field("float", "some_payload")>>

AnotherPacketOld ==
    <<Field("int32_t", "id"), Field("vector<float>", "another_payload")>>

SomePacket ==
    <<Field("int32_t", "id"), Field("float", "some_payload")>>

AnotherPacket ==
    <<Field("int32_t", "id"), Field("vector<float>", "another_payload")>>

\* The structs the source adapts with BOOST_HANA_DEFINE_STRUCT.
HanaStructs ==
    [SomePacket |-> SomePacket, AnotherPacket |-> AnotherPacket]

\* A native type: a class template instance <<template, D, T>>; a plain
\* struct has D = 0 and T = "".
StructType(n) == <<n, 0, "">>

\* Mutant of TensorOld: the old-style statements instantiate Tensor itself.
TensorOld_as_Tensor(d, t) == <<"Tensor", d, t>>

TensorOld(d, t) == <<"TensorOld", d, t>>

Tensor(d, t) == <<"Tensor", d, t>>

packets ==
    << <<"some_packet", "SomePacket">>, <<"another_packet", "AnotherPacket">> >>

dsSource ==
    << <<"1d", 1>>, <<"2d", 2>>, <<"3d", 3>>, <<"4d", 4>>, <<"5d", 5>>, <<"6d", 6>> >>

tsSource ==
    << <<"f", "float">>, <<"d", "double">> >>

\* The twelve hand-written statements py::class_<TensorOld<D, T>>(m, name).
OldTensors ==
    << <<"tensor_old_1d_f", 1, "float">>,  <<"tensor_old_2d_f", 2, "float">>,
       <<"tensor_old_3d_f", 3, "float">>,  <<"tensor_old_4d_f", 4, "float">>,
       <<"tensor_old_5d_f", 5, "float">>,  <<"tensor_old_6d_f", 6, "float">>,
       <<"tensor_old_1d_d", 1, "double">>, <<"tensor_old_2d_d", 2, "double">>,
       <<"tensor_old_3d_d", 3, "double">>, <<"tensor_old_4d_d", 4, "double">>,
       <<"tensor_old_5d_d", 5, "double">>, <<"tensor_old_6d_d", 6, "double">> >>

(***************************************************************************)
(* Boost.Hana operations used by the pass.                                 *)
(***************************************************************************)
\* Mutant of types: the field types in reverse declaration order.
types_reversed(P) ==
    [i \in 1..Len(structs[P]) |-> structs[P][Len(structs[P]) + 1 - i].type]

\* hana::transform(hana::members(P{}), type_c<decltype(member)>): the field
\* types, in declaration order.
types(P) == [i \in 1..Len(structs[P]) |-> structs[P][i].type]

\* Mutant of accessors: a field list kept by hand, as the source has it,
\* instead of the struct's own.
accessors_stale(P) ==
    [i \in 1..Len(HanaStructs[P]) |->
        [first |-> HanaStructs[P][i].name, second |-> HanaStructs[P][i].name]]

\* hana::accessors<P>(): one (key, member accessor) pair per field, in
\* declaration order.
accessors(P) ==
    [i \in 1..Len(structs[P]) |->
        [first |-> structs[P][i].name, second |-> structs[P][i].name]]

\* Mutant of cartesian_product: the axes zipped, not multiplied.
cartesian_product_zip(xs, ys) ==
    [k \in 1..Len(xs) |-> <<xs[k], ys[((k - 1) % Len(ys)) + 1]>>]

\* hana::cartesian_product(hana::make_tuple(xs, ys)): every <<x, y>>, the
\* first component varying slowest.
cartesian_product(xs, ys) ==
    [k \in 1..(Len(xs) * Len(ys)) |->
        <<xs[((k - 1) \div Len(ys)) + 1], ys[((k - 1) % Len(ys)) + 1]>>]

\* Mutant of name: the scalar name left out.
name_without_scalar(dt) == "tensor_" \o dt[1][1]

\* "tensor_"s + dt[0_c][0_c].c_str() + "_"s + dt[1_c][0_c].c_str()
name(dt) == "tensor_" \o dt[1][1] \o "_" \o dt[2][1]

(***************************************************************************)
(* The binding layer: py::class_, .def(py::init), .def_readwrite, .def.    *)
(***************************************************************************)
NoAttrs == [a \in {} |-> {}]

NoInit == [defined |-> FALSE, args |-> <<>>]

init(sig) == [defined |-> TRUE, args |-> sig]

\* py::class_<T>(m, n) throws when the scope already holds n or when T is
\* registered already.
class_ok(n, T) == n \notin DOMAIN m /\ T \notin registered_types

\* The binding py::class_<T>(m, n) creates: no constructor, no attributes.
class_(T, fields) ==
    [type |-> T, fields |-> fields, ctor |-> NoInit, attrs |-> NoAttrs]

\* .def(py::init<Args...>())
def_init(c, sig) == [c EXCEPT !.ctor = init(sig)]

\* .def_readwrite(n, &T::member): the attribute n becomes a property with a
\* getter and a setter.
def_readwrite(c, n, member) ==
    [c EXCEPT !.attrs = (n :> <<[kind |-> "readwrite", member |-> member,
                                 ka |-> <<"", 0>>]>>) @@ c.attrs]

\* .def(n, [&ka](P& p) { return hana::second(ka)(p); }): a method whose
\* closure holds a reference to ka. A method already registered under n is
\* the new one's sibling: the new one joins its overload chain.
def(c, n, member, ka) ==
    LET f == [kind |-> "method", member |-> member, ka |-> ka]
    IN IF n \in DOMAIN c.attrs /\ c.attrs[n][1].kind = "method"
       THEN [c EXCEPT !.attrs[n] = Append(@, f)]
       ELSE [c EXCEPT !.attrs = (n :> <<f>>) @@ c.attrs]

\* The hand-written binding of an old-style packet:
\* class_ + def(init<...>) + one def_readwrite per field.
RECURSIVE readwrite_all(_, _, _)
readwrite_all(c, fields, i) ==
    IF i > Len(fields) THEN c
    ELSE readwrite_all(def_readwrite(c, fields[i].name, fields[i].name),
                       fields, i + 1)

old_packet(T, fields) ==
    readwrite_all(
        def_init(class_(T, fields), [i \in 1..Len(fields) |-> fields[i].type]),
        fields, 1)

(***************************************************************************)
(* Program positions.                                                      *)
(***************************************************************************)
At(at, i, j) == [at |-> at, i |-> i, j |-> j]

Done == pc.at = "done"

Failed == pc.at = "failed"

\* The host's last operation: none yet. An operation fills in what it has of
\* the binding called, the signature and arguments, the instance, the
\* attribute name, the value passed or returned, and the outcome.
NoOp ==
    [op |-> "none", cls |-> "", sig |-> <<>>, args |-> <<>>, obj |-> 0,
     name |-> "", val |-> [type |-> "", elems |-> <<>>], out |-> "",
     dangling |-> FALSE]

Static == UNCHANGED <<structs, ds, ts>>

\* Mutant of AfterPacket: the pass returns after the packets loop.
AfterPacket_returns(i) ==
    IF i < Len(packets) THEN At("packet", i + 1, 0) ELSE At("done", 0, 0)

\* After the packets loop's i-th iteration.
AfterPacket(i) ==
    IF i < Len(packets) THEN At("packet", i + 1, 0)
    ELSE IF Len(ds) * Len(ts) > 0 THEN At("tensor", 1, 0)
    ELSE At("done", 0, 0)

(***************************************************************************)
(* The registration pass.                                                  *)
(***************************************************************************)
\* py::class_<SomePacketOld>(m, "some_packet_old")...
RegisterSomePacketOld ==
    /\ pc.at = "some_packet_old"
    /\ IF class_ok("some_packet_old", StructType("SomePacketOld"))
       THEN /\ m' = ("some_packet_old" :>
                        old_packet(StructType("SomePacketOld"), SomePacketOld)) @@ m
            /\ registered_types' =
                   registered_types \cup {StructType("SomePacketOld")}
            /\ pc' = At("another_packet_old", 0, 0)
       ELSE /\ pc' = At("failed", 0, 0)
            /\ UNCHANGED <<m, registered_types>>
    /\ UNCHANGED <<kaAlive, objs, last>>
    /\ Static

\* py::class_<AnotherPacketOld>(m, "another_packet_old")...
RegisterAnotherPacketOld ==
    /\ pc.at = "another_packet_old"
    /\ IF class_ok("another_packet_old", StructType("AnotherPacketOld"))
       THEN /\ m' = ("another_packet_old" :>
                        old_packet(StructType("AnotherPacketOld"),
                                   AnotherPacketOld)) @@ m
            /\ registered_types' =
                   registered_types \cup {StructType("AnotherPacketOld")}
            /\ pc' = At("tensor_old", 1, 0)
       ELSE /\ pc' = At("failed", 0, 0)
            /\ UNCHANGED <<m, registered_types>>
    /\ UNCHANGED <<kaAlive, objs, last>>
    /\ Static

\* The pc.i-th statement py::class_<TensorOld<D, T>>(m, "tensor_old_...").
RegisterTensorOld ==
    /\ pc.at = "tensor_old"
    /\ LET s == OldTensors[pc.i]
           T == TensorOld(s[2], s[3])
       IN IF class_ok(s[1], T)
          THEN /\ m' = (s[1] :> class_(T, <<>>)) @@ m
               /\ registered_types' = registered_types \cup {T}
               /\ pc' = IF pc.i < Len(OldTensors)
                        THEN At("tensor_old", pc.i + 1, 0)
                        ELSE At("packet", 1, 0)
          ELSE /\ pc' = At("failed", 0, 0)
               /\ UNCHANGED <<m, registered_types>>
    /\ UNCHANGED <<kaAlive, objs, last>>
    /\ Static

\* Steps 1-4 of the packets loop body for packets[pc.i]:
\* py::class_<P>(m, x[0_c].c_str()).def(Init()).
RegisterPacket ==
    /\ pc.at = "packet"
    /\ LET x == packets[pc.i]
           P == x[2]
           Init_ == types(P)
       IN IF class_ok(x[1], StructType(P))
          THEN /\ m' = (x[1] :> def_init(class_(StructType(P), structs[P]),
                                         Init_)) @@ m
               /\ registered_types' = registered_types \cup {StructType(P)}
               /\ pc' = IF Len(accessors(P)) > 0
                        THEN At("fold", pc.i, 1)
                        ELSE AfterPacket(pc.i)
          ELSE /\ pc' = At("failed", 0, 0)
               /\ UNCHANGED <<m, registered_types>>
    /\ UNCHANGED <<kaAlive, objs, last>>
    /\ Static

\* Step 5, the fold's lambda called for the pc.j-th accessor: its by-value
\* parameter ka is constructed and c.def stores a closure referring to it.
FoldDef ==
    /\ pc.at = "fold"
    /\ LET x == packets[pc.i]
           P == x[2]
           ka == accessors(P)[pc.j]
           id == <<P, pc.j>>
       IN /\ kaAlive' = kaAlive \cup {id}
          /\ m' = [m EXCEPT ![x[1]] = def(@, ka.first, ka.second, id)]
    /\ pc' = At("fold_return", pc.i, pc.j)
    /\ UNCHANGED <<registered_types, objs, last>>
    /\ Static

\* The fold's lambda returns: its parameter ka is destroyed.
FoldReturn ==
    /\ pc.at = "fold_return"
    /\ LET P == packets[pc.i][2]
       IN /\ kaAlive' = kaAlive \ {<<P, pc.j>>}
          /\ pc' = IF pc.j < Len(accessors(P))
                   THEN At("fold", pc.i, pc.j + 1)
                   ELSE AfterPacket(pc.i)
    /\ UNCHANGED <<m, registered_types, objs, last>>
    /\ Static

\* The tensor loop body for the pc.i-th element of the cartesian product:
\* py::class_<Tensor<d, T>>(m, name.c_str()).
RegisterTensor ==
    /\ pc.at = "tensor"
    /\ LET prod == cartesian_product(ds, ts)
           dt == prod[pc.i]
           d == dt[1][2]
           T == dt[2][2]
       IN IF class_ok(name(dt), Tensor(d, T))
          THEN /\ m' = (name(dt) :> class_(Tensor(d, T), <<>>)) @@ m
               /\ registered_types' = registered_types \cup {Tensor(d, T)}
               /\ pc' = IF pc.i < Len(prod)
                        THEN At("tensor", pc.i + 1, 0)
                        ELSE At("done", 0, 0)
          ELSE /\ pc' = At("failed", 0, 0)
               /\ UNCHANGED <<m, registered_types>>
    /\ UNCHANGED <<kaAlive, objs, last>>
    /\ Static

Registration ==
    \/ RegisterSomePacketOld
    \/ RegisterAnotherPacketOld
    \/ RegisterTensorOld
    \/ RegisterPacket
    \/ FoldDef
    \/ FoldReturn
    \/ RegisterTensor

(***************************************************************************)
(* The host runtime, once the module is imported.                          *)
(***************************************************************************)
FieldTypes == {"int32_t", "float", "vector<float>"}

\* A value of a field type: the type and the numbers it holds, one for a
\* scalar, any number of them (here at most one) for a vector.
Val(t, elems) == [type |-> t, elems |-> elems]

NoVal == Val("", <<>>)

\* The values of a field type the host passes.
TypeVals(t) ==
    IF t = "vector<float>"
    THEN {Val(t, <<>>)} \cup {Val(t, <<v>>) : v \in 0..MaxVal}
    ELSE {Val(t, <<v>>) : v \in 0..MaxVal}

RECURSIVE ValsOf(_)
\* The argument tuples of a signature.
ValsOf(sig) ==
    IF sig = <<>> THEN {<<>>}
    ELSE {<<v>> \o rest : v \in TypeVals(Head(sig)), rest \in ValsOf(Tail(sig))}

\* The signatures the host tries on a binding: every one up to one argument
\* longer than the registered constructor; no arguments when none is registered.
Sigs(c) ==
    UNION {[1..n -> FieldTypes] :
              n \in 0..(Len(c.ctor.args) + (IF c.ctor.defined THEN 1 ELSE 0))}

\* The attribute names the host tries: every registered one, and one that
\* no binding has.
AttrNames == UNION {DOMAIN m[n].attrs : n \in DOMAIN m} \cup {"nosuch"}

\* new P{args...}: the i-th declared field takes the i-th argument.
aggregate_init(fields, args) ==
    [n \in {fields[i].name : i \in DOMAIN fields} |->
        args[CHOOSE i \in DOMAIN fields : fields[i].name = n]]

\* The module is imported and the host is between two operations.
Imported == Done /\ last.op = "none"

\* cls(*args): the constructor registered by .def(py::init<...>()).
Construct ==
    /\ Imported
    /\ \E cls \in DOMAIN m :
         LET c == m[cls]
         IN \E sig \in Sigs(c) :
              IF c.ctor.defined /\ sig = c.ctor.args
              THEN /\ Len(objs) < MaxObjs
                   /\ \E args \in ValsOf(sig) :
                        /\ objs' = Append(objs,
                               [cls |-> cls,
                                fields |-> aggregate_init(c.fields, args)])
                        /\ last' = [NoOp EXCEPT !.op = "construct",
                                       !.cls = cls, !.sig = sig, !.args = args,
                                       !.obj = Len(objs) + 1, !.out = "object"]
              ELSE /\ objs' = objs
                   /\ last' = [NoOp EXCEPT !.op = "construct", !.cls = cls,
                                  !.sig = sig, !.out = "TypeError"]
    /\ UNCHANGED <<pc, m, registered_types, kaAlive>>
    /\ Static

\* o.n: reading an attribute.
GetAttr ==
    /\ Imported
    /\ \E o \in DOMAIN objs, n \in AttrNames :
         LET c == m[objs[o].cls]
             op == [NoOp EXCEPT !.op = "getattr", !.obj = o, !.name = n]
         IN last' =
              IF n \notin DOMAIN c.attrs
              THEN [op EXCEPT !.out = "AttributeError"]
              ELSE IF c.attrs[n][1].kind = "readwrite"
              THEN [op EXCEPT !.out = "value",
                       !.val = objs[o].fields[c.attrs[n][1].member]]
              ELSE [op EXCEPT !.out = "bound_method"]
    /\ UNCHANGED <<pc, m, registered_types, kaAlive, objs>>
    /\ Static

\* The outcomes of the stored closure [&ka](P& p) { return
\* hana::second(ka)(p); } on instance o: the field's value while ka is alive;
\* once ka is destroyed the read goes through a dangling reference and any
\* value of the field's type, or a crash, may come out.
closure_outcomes(c, a, o) ==
    LET field == CHOOSE i \in DOMAIN c.fields : c.fields[i].name = a.member
    IN IF a.ka \in kaAlive
       THEN {[out |-> "value", val |-> objs[o].fields[a.member]]}
       ELSE {[out |-> "value", val |-> v] : v \in TypeVals(c.fields[field].type)}
            \cup {[out |-> "crash", val |-> NoVal]}

\* o.n(): calling an attribute. The overloads of a method take the same
\* argument, so the first registered one is the one called.
Call ==
    /\ Imported
    /\ \E o \in DOMAIN objs, n \in AttrNames :
         LET c == m[objs[o].cls]
             op == [NoOp EXCEPT !.op = "call", !.obj = o, !.name = n]
         IN IF n \notin DOMAIN c.attrs
            THEN last' = [op EXCEPT !.out = "AttributeError"]
            ELSE IF c.attrs[n][1].kind = "readwrite"
            THEN last' = [op EXCEPT !.out = "TypeError"]
            ELSE \E r \in closure_outcomes(c, c.attrs[n][1], o) :
                   last' = [op EXCEPT !.out = r.out, !.val = r.val,
                               !.dangling = c.attrs[n][1].ka \notin kaAlive]
    /\ UNCHANGED <<pc, m, registered_types, kaAlive, objs>>
    /\ Static

\* o.n = v: writing an attribute.
SetAttr ==
    /\ Imported
    /\ \E o \in DOMAIN objs, n \in AttrNames, t \in FieldTypes :
         \E v \in TypeVals(t) :
           LET c == m[objs[o].cls]
               field == CHOOSE i \in DOMAIN c.fields :
                            c.fields[i].name = c.attrs[n][1].member
               op == [NoOp EXCEPT !.op = "setattr", !.obj = o, !.name = n,
                         !.val = v]
           IN IF n \notin DOMAIN c.attrs \/ c.attrs[n][1].kind # "readwrite"
              THEN /\ objs' = objs
                   /\ last' = [op EXCEPT !.out = "AttributeError"]
              ELSE IF c.fields[field].type # t
              THEN /\ objs' = objs
                   /\ last' = [op EXCEPT !.out = "TypeError"]
              ELSE /\ objs' = [objs EXCEPT ![o].fields[c.attrs[n][1].member] = v]
                   /\ last' = [op EXCEPT !.out = "ok"]
    /\ UNCHANGED <<pc, m, registered_types, kaAlive>>
    /\ Static

\* The host drops the result of its last operation and goes on; a crashed
\* process does not.
Discard ==
    /\ Done
    /\ last.op # "none"
    /\ last.out # "crash"
    /\ last' = NoOp
    /\ UNCHANGED <<pc, m, registered_types, kaAlive, objs>>
    /\ Static

Host ==
    \/ Construct
    \/ GetAttr
    \/ Call
    \/ SetAttr
    \/ Discard

(***************************************************************************)
(* Initial states.                                                         *)
(***************************************************************************)
InitRun ==
    /\ pc = At("some_packet_old", 0, 0)
    /\ m = [n \in {} |-> {}]
    /\ registered_types = {}
    /\ kaAlive = {}
    /\ objs = <<>>
    /\ last = NoOp

Init ==
    /\ structs = HanaStructs
    /\ ds = dsSource
    /\ ts = tsSource
    /\ InitRun

Next == Registration \/ Host

Spec == Init /\ [][Next]_vars

(***************************************************************************)
(* The source with one edit of its declarations.                           *)
(***************************************************************************)
InsertAt(seq, k, e) == SubSeq(seq, 1, k - 1) \o <<e>> \o SubSeq(seq, k, Len(seq))

RemoveAt(seq, k) == SubSeq(seq, 1, k - 1) \o SubSeq(seq, k + 1, Len(seq))

Range(seq) == {seq[i] : i \in DOMAIN seq}

\* Fields a maintainer adds to a struct.
NewFields == {Field("int32_t", "seq"), Field("vector<float>", "extra")}

\* Pairs a maintainer adds to ds: fresh or reused names, fresh or reused
\* dimensions.
NewDs == {<<n, d>> : n \in {"7d", "one", "1d_f", "old_1d", "1d"}, d \in {7, 1}}
             \ Range(dsSource)

\* Pairs a maintainer adds to ts.
NewTs == {<<n, T>> : n \in {"h", "flt", "d_d", "f"}, T \in {"half", "float"}}
             \ Range(tsSource)

\* One field added to or removed from the declaration of struct P.
FieldEdits(P) ==
    {InsertAt(HanaStructs[P], k, f) :
        k \in 1..(Len(HanaStructs[P]) + 1), f \in NewFields}
    \cup {RemoveAt(HanaStructs[P], k) : k \in 1..Len(HanaStructs[P])}

InitEvolve ==
    /\ \/ /\ \E P \in DOMAIN HanaStructs :
               \E fields \in FieldEdits(P) :
                 structs = [HanaStructs EXCEPT ![P] = fields]
          /\ ds = dsSource
          /\ ts = tsSource
       \/ /\ structs = HanaStructs
          /\ \E x \in NewDs, k \in 1..(Len(dsSource) + 1) :
               ds = InsertAt(dsSource, k, x)
          /\ ts = tsSource
       \/ /\ structs = HanaStructs
          /\ ds = dsSource
          /\ \E x \in NewTs, k \in 1..(Len(tsSource) + 1) :
               ts = InsertAt(tsSource, k, x)
    /\ InitRun

EvolveSpec == InitEvolve /\ [][Registration]_vars

\* Module initialisation is straight-line code on one thread: a step that
\* can be taken is taken.
FairSpec == Init /\ [][Next]_vars /\ WF_vars(Registration)

(***************************************************************************)
(* What the bindings are expected to be: the hand-written bindings of the  *)
(* README and of the old-style half of the module.                         *)
(***************************************************************************)
\* README, "Problem 2": the twelve hand-written tensor bindings.
ReadmeTensors ==
    << <<"tensor_1d_f", 1, "float">>,  <<"tensor_2d_f", 2, "float">>,
       <<"tensor_3d_f", 3, "float">>,  <<"tensor_4d_f", 4, "float">>,
       <<"tensor_5d_f", 5, "float">>,  <<"tensor_6d_f", 6, "float">>,
       <<"tensor_1d_d", 1, "double">>, <<"tensor_2d_d", 2, "double">>,
       <<"tensor_3d_d", 3, "double">>, <<"tensor_4d_d", 4, "double">>,
       <<"tensor_5d_d", 5, "double">>, <<"tensor_6d_d", 6, "double">> >>

\* The name an old-style binding has once its "_old" / "old_" marker is removed.
Unmarked ==
    [some_packet_old |-> "some_packet",
     another_packet_old |-> "another_packet",
     tensor_old_1d_f |-> "tensor_1d_f", tensor_old_2d_f |-> "tensor_2d_f",
     tensor_old_3d_f |-> "tensor_3d_f", tensor_old_4d_f |-> "tensor_4d_f",
     tensor_old_5d_f |-> "tensor_5d_f", tensor_old_6d_f |-> "tensor_6d_f",
     tensor_old_1d_d |-> "tensor_1d_d", tensor_old_2d_d |-> "tensor_2d_d",
     tensor_old_3d_d |-> "tensor_3d_d", tensor_old_4d_d |-> "tensor_4d_d",
     tensor_old_5d_d |-> "tensor_5d_d", tensor_old_6d_d |-> "tensor_6d_d"]

FieldNames(fields) == {fields[i].name : i \in DOMAIN fields}

\* What the host sees of a binding: its native type, its constructor and,
\* per attribute name, the kinds of what is registered under it.
Surface(c) ==
    [type |-> c.type, ctor |-> c.ctor,
     attrs |-> [n \in DOMAIN c.attrs |->
                  [k \in DOMAIN c.attrs[n] |-> c.attrs[n][k].kind]]]

OpaqueSurface(T) == [type |-> T, ctor |-> NoInit, attrs |-> NoAttrs]

\* The surface of every binding of the unedited source, written out.
SourceSurface ==
    [n \in {"some_packet_old"} |->
        [type |-> StructType("SomePacketOld"),
         ctor |-> init(<<"int32_t", "float">>),
         attrs |-> [id |-> <<"readwrite">>, some_payload |-> <<"readwrite">>]]]
    @@ [n \in {"another_packet_old"} |->
        [type |-> StructType("AnotherPacketOld"),
         ctor |-> init(<<"int32_t", "vector<float>">>),
         attrs |-> [id |-> <<"readwrite">>, another_payload |-> <<"readwrite">>]]]
    @@ [n \in {"some_packet"} |->
        [type |-> StructType("SomePacket"),
         ctor |-> init(<<"int32_t", "float">>),
         attrs |-> [id |-> <<"method">>, some_payload |-> <<"method">>]]]
    @@ [n \in {"another_packet"} |->
        [type |-> StructType("AnotherPacket"),
         ctor |-> init(<<"int32_t", "vector<float>">>),
         attrs |-> [id |-> <<"method">>, another_payload |-> <<"method">>]]]
    @@ [n \in {OldTensors[i][1] : i \in DOMAIN OldTensors} |->
        LET i == CHOOSE i \in DOMAIN OldTensors : OldTensors[i][1] = n
        IN OpaqueSurface(<<"TensorOld", OldTensors[i][2], OldTensors[i][3]>>)]
    @@ [n \in {ReadmeTensors[i][1] : i \in DOMAIN ReadmeTensors} |->
        LET i == CHOOSE i \in DOMAIN ReadmeTensors : ReadmeTensors[i][1] = n
        IN OpaqueSurface(<<"Tensor", ReadmeTensors[i][2], ReadmeTensors[i][3]>>)]

\* The Tensor bindings of the module, as <<name, D, T>>.
TensorBindings ==
    {<<n, m[n].type[2], m[n].type[3]>> :
        n \in {k \in DOMAIN m : m[k].type[1] = "Tensor"}}

\* The names the module holds when the tensor loop starts.
PreTensorNames ==
    {"some_packet_old", "another_packet_old", "some_packet", "another_packet"}
    \cup {OldTensors[i][1] : i \in DOMAIN OldTensors}

HanaNames == {packets[i][1] : i \in DOMAIN packets}

(***************************************************************************)
(* C1                                                                      *)
(***************************************************************************)
\* C1: for every aggregate of the packets list, the constructor the Hana
\* loop registers takes exactly the declared field types in declaration
\* order (a call is accepted iff its signature is that one), and an instance
\* built through it has its i-th declared field equal to the i-th argument.
C1_CtorTakesFieldsInOrder ==
    \A x \in Range(packets) :
        LET fields == structs[x[2]]
        IN /\ x[1] \in DOMAIN m =>
                /\ m[x[1]].ctor.defined
                /\ Len(m[x[1]].ctor.args) = Len(fields)
                /\ \A i \in DOMAIN fields : m[x[1]].ctor.args[i] = fields[i].type
           /\ (last.op = "construct" /\ last.cls = x[1]) =>
                /\ last.out = "object" <=>
                      /\ Len(last.sig) = Len(fields)
                      /\ \A i \in DOMAIN fields : last.sig[i] = fields[i].type
                /\ last.out = "object" =>
                      \A i \in DOMAIN fields :
                          objs[last.obj].fields[fields[i].name] = last.args[i]

C1_Witness ==
    /\ last.op = "construct"
    /\ last.cls = "another_packet"
    /\ last.out = "object"
    /\ last.args[1] = Val("int32_t", <<1>>)
    /\ last.args[2] = Val("vector<float>", <<0>>)
    /\ objs[last.obj].fields["another_payload"] = Val("vector<float>", <<0>>)

(***************************************************************************)
(* C2                                                                      *)
(***************************************************************************)
\* The structural half of C2: once the fold over accessors<P>() is through,
\* each declared field has exactly one accessor, under the field's name, and
\* no other name has one.
C2_OneAccessorPerField ==
    Done =>
        \A x \in Range(packets) :
            /\ DOMAIN m[x[1]].attrs = FieldNames(structs[x[2]])
            /\ \A n \in DOMAIN m[x[1]].attrs :
                  /\ Len(m[x[1]].attrs[n]) = 1
                  /\ m[x[1]].attrs[n][1].member = n

\* C2: each declared field of a packets-list aggregate has exactly one
\* accessor, registered under the field's name, no other name has one, and
\* calling the accessor on an instance returns the value the field holds.
C2_AccessorReturnsField ==
    /\ C2_OneAccessorPerField
    /\ (/\ last.op = "call"
        /\ objs[last.obj].cls \in HanaNames
        /\ last.name \in DOMAIN m[objs[last.obj].cls].attrs) =>
            /\ last.out = "value"
            /\ last.val = objs[last.obj].fields[last.name]

(***************************************************************************)
(* C3                                                                      *)
(***************************************************************************)
\* C3: every Tensor binding is the binding of one pair of ds x ts, named
\* "tensor_" + dimension name + "_" + scalar name; no instantiation is bound
\* twice and no registration is refused; when the pass is through the Tensor
\* bindings are exactly the twelve of the README.
C3_OneBindingPerPair ==
    /\ ~Failed
    /\ TensorBindings \subseteq
          {<<"tensor_" \o x[1] \o "_" \o y[1], x[2], y[2]>> :
              x \in Range(ds), y \in Range(ts)}
    /\ Cardinality({<<b[2], b[3]>> : b \in TensorBindings}) =
          Cardinality(TensorBindings)
    /\ Done => TensorBindings = Range(ReadmeTensors)

C3_Witness ==
    /\ Done
    /\ <<"tensor_6d_d", 6, "double">> \in TensorBindings
    /\ <<"tensor_1d_f", 1, "float">> \in TensorBindings

(***************************************************************************)
(* C4                                                                      *)
(***************************************************************************)
\* C4: the pass terminates; when it has completed, every declared type is
\* registered under its derived name; the pass never starts again and the
\* registered bindings never change after completion.
C4_PassCompletesOnce ==
    /\ <>Done
    /\ [](Done => /\ DOMAIN m = DOMAIN SourceSurface
                  /\ \A n \in DOMAIN m : m[n].type = SourceSurface[n].type)
    /\ [][Done => (Done' /\ m' = m /\ registered_types' = registered_types)]_vars
    /\ [][pc'.at = "some_packet_old" => pc.at = "some_packet_old"]_vars

C4_Witness ==
    /\ Done
    /\ DOMAIN m = DOMAIN SourceSurface
    /\ last.op = "construct"
    /\ last.out = "object"

(***************************************************************************)
(* C5                                                                      *)
(***************************************************************************)
\* C5: through a field's name the host can read the field of an instance of
\* any declared aggregate and write a new value into it, after which the
\* instance holds the written value.
C5_ReadWriteAccessors ==
    \A o \in DOMAIN objs :
        LET c == m[objs[o].cls]
        IN /\ (/\ last.op = "getattr"
               /\ last.obj = o
               /\ last.name \in FieldNames(c.fields)) =>
                   /\ last.out = "value"
                   /\ last.val = objs[o].fields[last.name]
           /\ (/\ last.op = "setattr"
               /\ last.obj = o
               /\ \E i \in DOMAIN c.fields :
                      c.fields[i] = Field(last.val.type, last.name)) =>
                   /\ last.out = "ok"
                   /\ objs[o].fields[last.name] = last.val

(***************************************************************************)
(* C6                                                                      *)
(***************************************************************************)
\* Exactly the declaration of one struct differs from the source.
FieldEdit == ds = dsSource /\ ts = tsSource

\* C6: with a field added to or removed from one aggregate's declaration,
\* the pass is not refused and, once through, that aggregate's constructor
\* takes the new field types in order and its accessors are the new field
\* names, while every other binding (the other aggregates, every tensor) is
\* what it is for the unedited source.
C6_OnlyEditedAggregateChanges ==
    FieldEdit =>
        /\ ~Failed
        /\ Done =>
              /\ DOMAIN m = DOMAIN SourceSurface
              /\ \A n \in DOMAIN m \ HanaNames : Surface(m[n]) = SourceSurface[n]
              /\ \A x \in Range(packets) :
                    LET fields == structs[x[2]]
                        c == m[x[1]]
                    IN IF fields = HanaStructs[x[2]]
                       THEN Surface(c) = SourceSurface[x[1]]
                       ELSE /\ c.type = SourceSurface[x[1]].type
                            /\ c.ctor.defined
                            /\ Len(c.ctor.args) = Len(fields)
                            /\ \A i \in DOMAIN fields :
                                  c.ctor.args[i] = fields[i].type
                            /\ DOMAIN c.attrs = FieldNames(fields)
                            /\ \A n \in DOMAIN c.attrs :
                                  /\ Len(c.attrs[n]) = 1
                                  /\ c.attrs[n][1].kind = "method"
                                  /\ c.attrs[n][1].member = n

C6_Witness ==
    /\ Done
    /\ FieldEdit
    /\ Len(structs["SomePacket"]) = 3
    /\ structs["SomePacket"][2].name = "extra"
    /\ m["some_packet"].ctor.args = <<"int32_t", "vector<float>", "float">>
    /\ "extra" \in DOMAIN m["some_packet"].attrs

(***************************************************************************)
(* C7                                                                      *)
(***************************************************************************)
DsNew == Range(ds) \ Range(dsSource)

TsNew == Range(ts) \ Range(tsSource)

AxisEdit == DsNew \cup TsNew # {}

\* The new pair's name is on no pair the axis had.
NameFresh ==
    /\ \A x \in DsNew : \A y \in Range(dsSource) : x[1] # y[1]
    /\ \A x \in TsNew : \A y \in Range(tsSource) : x[1] # y[1]

\* The new pair's value is on no pair the axis had.
ValueFresh ==
    /\ \A x \in DsNew : \A y \in Range(dsSource) : x[2] # y[2]
    /\ \A x \in TsNew : \A y \in Range(tsSource) : x[2] # y[2]

Pairs == {<<x, y>> : x \in Range(ds), y \in Range(ts)}

Concat(dt) == "tensor_" \o dt[1][1] \o "_" \o dt[2][1]

\* No name of a combination with the new pair is in the module already.
NoClash ==
    \A dt \in Pairs :
        (dt[1] \in DsNew \/ dt[2] \in TsNew) => Concat(dt) \notin PreTensorNames

\* The pass is not refused and ends with one binding per pair of ds x ts,
\* all under different names.
FullCrossProduct ==
    /\ ~Failed
    /\ Done =>
          /\ TensorBindings = {<<Concat(dt), dt[1][2], dt[2][2]>> : dt \in Pairs}
          /\ Cardinality({Concat(dt) : dt \in Pairs}) = Len(ds) * Len(ts)

\* C7 as stated: for a new pair whose name differs from the names on its
\* axis, the loop produces bindings for the full new cross product, no two
\* under the same name.
C7_AnyFreshName == (AxisEdit /\ NameFresh) => FullCrossProduct

\* C7, amended: for a new pair whose name and value both differ from those on
\* its axis, and whose concatenated names are not names the module holds
\* already, the loop produces bindings for the full new cross product, no two
\* under the same name.
C7_FreshNameAndValue ==
    (AxisEdit /\ NameFresh /\ ValueFresh /\ NoClash) => FullCrossProduct

C7_Witness ==
    /\ Done
    /\ <<"1d_f", 7>> \in DsNew
    /\ NameFresh /\ ValueFresh /\ NoClash
    /\ <<"tensor_1d_f_f", 7, "float">> \in TensorBindings
    /\ <<"tensor_1d_f", 1, "float">> \in TensorBindings
    /\ Cardinality(TensorBindings) = 14

(***************************************************************************)
(* C8                                                                      *)
(***************************************************************************)
\* C8: no registration of the pass is refused: the binding layer's
\* duplicate-name / duplicate-type failure is never reached, every binding
\* has a native type of its own, and all 28 registrations are made.
C8_NoRegistrationRefused ==
    /\ ~Failed
    /\ Cardinality(registered_types) = Cardinality(DOMAIN m)
    /\ registered_types = {m[n].type : n \in DOMAIN m}
    /\ Done => Cardinality(DOMAIN m) =
                  2 + Len(OldTensors) + Len(packets) + Len(ds) * Len(ts)

C8_Witness ==
    /\ Done
    /\ Cardinality(DOMAIN m) = 28
    /\ Cardinality(registered_types) = 28

(***************************************************************************)
(* C9                                                                      *)
(***************************************************************************)
\* C9: once the "_old" / "old_" marker is removed, the old-style bindings
\* and the Hana-style bindings have the same surface: per packet the same
\* constructor and the same field names exposed in the same way, and the
\* same set of tensor names.
C9_SameSurfaceAsOldStyle ==
    Done =>
        /\ {Unmarked[n] : n \in DOMAIN Unmarked} = DOMAIN m \ DOMAIN Unmarked
        /\ \A n \in DOMAIN Unmarked :
              /\ m[n].ctor = m[Unmarked[n]].ctor
              /\ Surface(m[n]).attrs = Surface(m[Unmarked[n]]).attrs

(***************************************************************************)
(* C10                                                                     *)
(***************************************************************************)
\* C10: no call of a stored accessor reads through a reference to a
\* destroyed ka.
C10_KaAliveAtCall ==
    (last.op = "call" /\ last.out \in {"value", "crash"}) => ~last.dangling
====
